---- MODULE Spec2Model ----
(***************************************************************************)
(* Model of the Redux store engine (createStore): the five closure        *)
(* variables of one store, the listener arrays as heap objects with       *)
(* identity, the closures returned by subscribe, and the synchronous call *)
(* stack on which reducers and listeners run and call back into the       *)
(* store; of its observable (observers subscribed through the store's     *)
(* own subscribe); and of the reducer composer (combineReducers): slice   *)
(* reducers applied to state objects that have identity.  Warnings        *)
(* written to the console are left out.                                    *)
(***************************************************************************)
EXTENDS Integers, Sequences, FiniteSets, TLC

\* ---------------------------------------------------------------- bounds
MaxCalls == 4
MaxSeqCalls == 5
MaxSubs == 3
MaxNest == 2
MaxDispatch == 2
MaxComposerCalls == 2
MaxObservers == 1

\* ---------------------------------------------------------------- inputs
\* JavaScript undefined; a defined state value n is <<n>>
Undefined == <<>>

\* listener functions the callers pass to subscribe; the two are
\* interchangeable, so the first one subscribed is always called l
Listeners == {"l", "m"}

\* the observeState closures made by observable().subscribe, in order
ObserveStates == <<"observeState1", "observeState2">>

\* observers: an object with a next method, an object without one, a value
\* that is no object
NotAnObject == "notAnObject"
Observers == {"withNext", "withoutNext", NotAnObject}

\* reducer functions: createStore is given counter, replaceReducer stepper
Reducers == {"counter", "stepper"}
NotAFunction == "notAFunction"
NextReducers == {"stepper", NotAFunction}

\* the action createStore and replaceReducer dispatch
INIT == [plain |-> TRUE, type |-> "@@redux/INIT"]

\* values the callers pass to dispatch: plain or not, with or without type
Actions == [plain : BOOLEAN, type : {"undefined", "INC"}]

\* counter(state = 0, action): state + 1 on INC, else state
\* stepper(state = 10, action): state + 2 on INC, else state
Reduce(r, s, a) ==
  LET d  == IF r = "counter" THEN 0 ELSE 10
      s0 == IF s = Undefined THEN d ELSE s[1]
      k  == IF r = "counter" THEN 1 ELSE 2
  IN  IF a.type = "INC" THEN <<s0 + k>> ELSE <<s0>>

\* ---------------------------------------------------------------- state
VARIABLES
  currentReducer,    \* store field
  currentState,      \* store field
  currentListeners,  \* store field: reference (index into heap)
  nextListeners,     \* store field: reference (index into heap)
  isDispatching,     \* store field
  heap,              \* the listener arrays ever allocated, by reference
  regs,              \* one closure per subscribe call: listener, isSubscribed
  stack,             \* synchronous call stack: dispatch and listener frames
  created,           \* "new" before line 281, "creating" during its INIT
                     \* dispatch, "live" once the store is returned, "failed"
  result,            \* outcome of the call this step completed, if any
  dispatches,        \* number of dispatch calls so far that entered the reducer
  calls,             \* number of calls so far that changed store or stack
  preloaded,         \* the (reducer, preloadedState) createStore was given
  client,            \* "reentrant": reducers and listeners call the store too;
                     \* "sequential": only top-level code calls the store;
                     \* "composer": top-level code that builds a combined
                     \* reducer, calls it and creates a store with it
  objects,           \* the state objects ever allocated, by reference
  combined,          \* closure of combineReducers: its argument, finalReducers
                     \* and sanityError
  observers,         \* the observers given to observable().subscribe, in order
  pushed             \* the calls of observer.next so far: observeState closure
                     \* and state pushed

vars == <<currentReducer, currentState, currentListeners, nextListeners,
          isDispatching, heap, regs, stack, created, result, calls,
          dispatches, preloaded, client, objects, combined, observers,
          pushed>>

store == <<currentReducer, currentState, currentListeners, nextListeners,
           isDispatching, heap>>

\* ---------------------------------------------------------------- composer
\* A state object is a mapping from keys to values; the value <<n>> held by
\* a slice whose state is an object is a reference to the n-th object.
EmptyObject == [k \in {} |-> Undefined]

\* state[key]
Get(obj, key) == IF key \in DOMAIN obj THEN obj[key] ELSE Undefined

\* nextState[key] = v
Put(obj, key, v) == [k \in DOMAIN obj \cup {key} |-> IF k = key THEN v ELSE obj[k]]

\* a new object: {} or { ... }
Alloc(objs, obj) == [objects |-> Append(objs, obj), ref |-> <<Len(objs) + 1>>]

\* the action of the second probe: a type no reducer knows
PROBE == [plain |-> TRUE, type |-> "@@redux/PROBE_UNKNOWN_ACTION"]

\* actions dispatched to a combined reducer; "" is a type that is falsy
CombineActions == [plain : {TRUE}, type : {"INC", "TOGGLE", "TOUCH", "BAD", ""}]

\* slice reducers handed to combineReducers:
\*   counter   (s = 0, a)     => a.type === 'INC' ? s + 1 : s
\*   flag      (s = false, a) => a.type === 'TOGGLE' ? !s : s   (0 / 1)
\*   items     (s = {n: 0}, a) => a.type === 'TOUCH' ? Object.assign({}, s) : s
\*   badOnBad  (s = 0, a)     => a.type === 'BAD' ? undefined : s
\*   noInit    (s, a)         => s
\*   initOnly  (s, a)         => a.type === INIT && s === undefined ? 0 : s
SliceReducers == {"counter", "flag", "items", "badOnBad", "noInit", "initOnly"}

SliceReduce(fn, objs, s, a) ==
  CASE fn = "counter" ->
         LET s0 == IF s = Undefined THEN <<0>> ELSE s
         IN  [value |-> IF a.type = "INC" THEN <<s0[1] + 1>> ELSE s0,
              objects |-> objs]
    [] fn = "flag" ->
         LET s0 == IF s = Undefined THEN <<0>> ELSE s
         IN  [value |-> IF a.type = "TOGGLE" THEN <<1 - s0[1]>> ELSE s0,
              objects |-> objs]
    [] fn = "items" ->
         LET d == IF s = Undefined THEN Alloc(objs, [n |-> <<0>>])
                  ELSE [objects |-> objs, ref |-> s]
             c == Alloc(d.objects, d.objects[d.ref[1]])
         IN  IF a.type = "TOUCH"
             THEN [value |-> c.ref, objects |-> c.objects]
             ELSE [value |-> d.ref, objects |-> d.objects]
    [] fn = "badOnBad" ->
         [value |-> IF a.type = "BAD" THEN Undefined
                    ELSE IF s = Undefined THEN <<0>> ELSE s,
          objects |-> objs]
    [] fn = "noInit" -> [value |-> s, objects |-> objs]
    [] fn = "initOnly" ->
         [value |-> IF a.type = INIT.type /\ s = Undefined THEN <<0>> ELSE s,
          objects |-> objs]

\* the arguments given to combineReducers, as key/value pairs in key order
ReducerMaps ==
  { << [key |-> "count", reducer |-> "counter"],
       [key |-> "flag", reducer |-> "flag"] >>,
    << [key |-> "count", reducer |-> "counter"],
       [key |-> "items", reducer |-> "items"] >>,
    << [key |-> "junk", reducer |-> NotAFunction],
       [key |-> "count", reducer |-> "counter"] >>,
    << [key |-> "junk", reducer |-> NotAFunction] >>,
    << [key |-> "count", reducer |-> "counter"],
       [key |-> "bad", reducer |-> "badOnBad"],
       [key |-> "flag", reducer |-> "flag"] >>,
    << [key |-> "count", reducer |-> "counter"],
       [key |-> "broken", reducer |-> "noInit"],
       [key |-> "flag", reducer |-> "flag"] >>,
    << [key |-> "lazy", reducer |-> "initOnly"],
       [key |-> "count", reducer |-> "counter"] >> }

NoError == [kind |-> "none", key |-> "", detail |-> ""]

\* getUndefinedStateErrorMessage, lines 297-305
getUndefinedStateErrorMessage(key, action) ==
  LET actionType == action.type
      actionName == IF actionType # "" THEN "\"" \o actionType \o "\""
                    ELSE "an action"
  IN  [kind |-> "UndefinedSliceState", key |-> key, detail |-> actionName]

\* the body of the forEach of lines 349-373 for one key
reducerSanity(r) ==
  IF SliceReduce(r.reducer, <<>>, Undefined, INIT).value = Undefined
  THEN [kind |-> "ReducerSanity", key |-> r.key, detail |-> "initialization"]
  ELSE IF SliceReduce(r.reducer, <<>>, Undefined, PROBE).value = Undefined
  THEN [kind |-> "ReducerSanity", key |-> r.key, detail |-> "random type"]
  ELSE NoError

\* assertReducerSanity, lines 348-374: the error it throws, if any
assertReducerSanity(reducers) ==
  LET failing == {i \in 1..Len(reducers) : reducerSanity(reducers[i]) # NoError}
  IN  IF failing = {} THEN NoError
      ELSE reducerSanity(reducers[CHOOSE i \in failing : \A j \in failing : i <= j])

isFunction(r) == r.reducer \in SliceReducers

\* variant: assertReducerSanity is called outside a try block
combineReducers_noCatch(reducers) ==
  LET finalReducers == SelectSeq(reducers, isFunction)
      e == assertReducerSanity(finalReducers)
  IN  [status |-> IF e = NoError THEN "ok" ELSE "throw", reducers |-> reducers,
       finalReducers |-> finalReducers, sanityError |-> NoError]

\* combineReducers, lines 383-424: the closure of the function it returns
combineReducers(reducers) ==
  LET finalReducers == SelectSeq(reducers, isFunction)
  IN  [status |-> "ok", reducers |-> reducers, finalReducers |-> finalReducers,
       sanityError |-> assertReducerSanity(finalReducers)]

NoCombination ==
  [status |-> "none", reducers |-> <<>>, finalReducers |-> <<>>,
   sanityError |-> NoError]

\* variant: only the last slice decides whether the state has changed
markChanged_lastOnly(hasChanged, nextStateForKey, previousStateForKey) ==
  nextStateForKey # previousStateForKey

\* line 459
markChanged(hasChanged, nextStateForKey, previousStateForKey) ==
  hasChanged \/ nextStateForKey # previousStateForKey

\* variant: the new mapping is returned even when nothing has changed
combinationResult_alwaysNext(hasChanged, nextState, state) == nextState

\* line 462
combinationResult(hasChanged, nextState, state) ==
  IF hasChanged THEN nextState ELSE state

\* variant: the check of line 450 is missing
isUndefined_never(v) == FALSE

\* typeof v === 'undefined'
isUndefined(v) == v = Undefined

NoCall ==
  [status |-> "none", error |-> NoError, state |-> Undefined,
   value |-> Undefined, objects |-> <<>>, base |-> 0, nextState |-> Undefined,
   hasChanged |-> FALSE, invoked |-> <<>>]

\* the loop of lines 440-460 from the i-th key on; call is the record of the
\* invocation so far
RECURSIVE combinationLoop(_, _, _, _, _)
combinationLoop(finalReducers, state, action, i, call) ==
  IF i > Len(finalReducers) THEN call
  ELSE LET key == finalReducers[i].key
           reducer == finalReducers[i].reducer
           previousStateForKey == Get(call.objects[state[1]], key)
           r == SliceReduce(reducer, call.objects, previousStateForKey, action)
           nextStateForKey == r.value
           called == [call EXCEPT !.objects = r.objects,
                                  !.invoked = Append(@, key)]
       IN  IF isUndefined(nextStateForKey)
           THEN [called EXCEPT !.status = "throw",
                               !.error = getUndefinedStateErrorMessage(key, action)]
           ELSE combinationLoop(finalReducers, state, action, i + 1,
                  [called EXCEPT
                     !.objects[call.nextState[1]] = Put(@, key, nextStateForKey),
                     !.hasChanged = markChanged(@, nextStateForKey,
                                                previousStateForKey)])

\* combination(state = {}, action), lines 425-463, of the closure c, run on
\* the objects objs: how it ends, what it returns and the objects afterwards
combination(c, objs, stateArg, action) ==
  LET d == IF stateArg = Undefined THEN Alloc(objs, EmptyObject)
           ELSE [objects |-> objs, ref |-> stateArg]
      entered == [NoCall EXCEPT !.status = "ok", !.state = d.ref,
                                !.objects = d.objects, !.base = Len(objs)]
      n == Alloc(d.objects, EmptyObject)
      done == combinationLoop(c.finalReducers, d.ref, action, 1,
                [entered EXCEPT !.objects = n.objects, !.nextState = n.ref])
  IN  IF c.sanityError # NoError
      THEN [entered EXCEPT !.status = "throw", !.error = c.sanityError]
      ELSE IF done.status = "throw" THEN done
      ELSE [done EXCEPT !.value = combinationResult(done.hasChanged,
                                                    done.nextState, done.state)]

Top == stack[Len(stack)]
Pop == SubSeq(stack, 1, Len(stack) - 1)

RECURSIVE Count(_, _)
Count(s, x) ==
  IF s = <<>> THEN 0
  ELSE (IF Head(s) = x THEN 1 ELSE 0) + Count(Tail(s), x)

\* functions of the closures still subscribed, in subscription order
RECURSIVE LiveFns(_)
LiveFns(rs) ==
  IF rs = <<>> THEN <<>>
  ELSE IF Head(rs).isSubscribed
       THEN <<Head(rs).listener>> \o LiveFns(Tail(rs))
       ELSE LiveFns(Tail(rs))

isPlainObject(a) == a.plain

\* the observer whose observeState closure f is, "" if f is a plain listener
ObserverOf(f, obs) ==
  IF \E n \in 1..Len(obs) : ObserveStates[n] = f
  THEN obs[CHOOSE n \in 1..Len(obs) : ObserveStates[n] = f]
  ELSE ""

\* variant: observeState never calls observer.next
observeState_noPush(observer, f, log, state) == log

\* observeState, lines 261-265: observer.next(getState()) if there is a next
observeState(observer, f, log, state) ==
  IF observer = "withNext" THEN Append(log, [to |-> f, state |-> state])
  ELSE log

\* variant: nextListeners is never forked, the aliased array is mutated
ensureCanMutateNextListeners_noFork(h, cur, nxt) == [heap |-> h, next |-> nxt]

\* if (nextListeners === currentListeners) nextListeners = currentListeners.slice()
ensureCanMutateNextListeners(h, cur, nxt) ==
  IF nxt = cur
  THEN [heap |-> Append(h, h[cur]), next |-> Len(h) + 1]
  ELSE [heap |-> h, next |-> nxt]

\* Array.prototype.indexOf, 1-based; 0 stands for JavaScript's -1
indexOf(arr, x) ==
  IF \E j \in 1..Len(arr) : arr[j] = x
  THEN CHOOSE j \in 1..Len(arr) : arr[j] = x /\ \A k \in 1..(j - 1) : arr[k] # x
  ELSE 0

\* arr.splice(index, 1); a start of -1 counts from the end of the array
splice1(arr, idx) ==
  LET at == IF idx = 0 THEN Len(arr) ELSE idx
  IN  IF at = 0 THEN arr
      ELSE SubSeq(arr, 1, at - 1) \o SubSeq(arr, at + 1, Len(arr))

\* subscribe, lines 115-118: fork if aliased, then push the listener
subscribeLists(h, cur, nxt, l) ==
  LET r == ensureCanMutateNextListeners(h, cur, nxt)
  IN  [heap |-> [r.heap EXCEPT ![r.next] = Append(@, l)], next |-> r.next]

\* variant: unsubscribe without the isSubscribed test of lines 124-128
unsubscribeLists_noGuard(h, cur, nxt, reg) ==
  LET r == ensureCanMutateNextListeners(h, cur, nxt)
  IN  [heap |-> [r.heap EXCEPT
                   ![r.next] = splice1(@, indexOf(@, reg.listener))],
       next |-> r.next]

\* the closure returned by subscribe, lines 121-139
unsubscribeLists(h, cur, nxt, reg) ==
  IF ~reg.isSubscribed
  THEN [heap |-> h, next |-> nxt]
  ELSE LET r == ensureCanMutateNextListeners(h, cur, nxt)
       IN  [heap |-> [r.heap EXCEPT
                        ![r.next] = splice1(@, indexOf(@, reg.listener))],
            next |-> r.next]

\* variant: the reducer is called without the action
callReducer_initOnly(reducer, state, action) == Reduce(reducer, state, INIT)

\* variant: the reducer is called without the current state
callReducer_fromUndefined(reducer, state, action) ==
  Reduce(reducer, Undefined, action)

\* currentReducer(currentState, action), line 186
callReducer(reducer, state, action) ==
  IF reducer = "combination"
  THEN combination(combined, objects, state, action).value
  ELSE Reduce(reducer, state, action)

\* variant: the flag is cleared after the call, not in a finally block
releaseFlag_noFinally(threw) == threw

\* variant: the flag is cleared when dispatch is left, not before the
\* listeners are notified
releaseFlag_afterNotify(threw) == ~threw

\* isDispatching after the try/finally of lines 180-192
releaseFlag(threw) == FALSE

\* variant: subscribe refuses to run while a reducer is running
subscribeError_notWhileDispatching(l, dispatching) ==
  IF l = NotAFunction THEN "InvalidListener"
  ELSE IF dispatching THEN "ReentrantSubscribe"
  ELSE "none"

\* the check of subscribe, lines 104-106; isDispatching is not looked at
subscribeError(l, dispatching) ==
  IF l = NotAFunction THEN "InvalidListener" ELSE "none"

\* variant: no test of isDispatching
dispatchError_noReentrancyCheck(action, dispatching) ==
  IF ~isPlainObject(action) THEN "InvalidAction"
  ELSE IF action.type = "undefined" THEN "InvalidActionType"
  ELSE "none"

\* variant: isDispatching is tested before the action is
dispatchError_reentrancyFirst(action, dispatching) ==
  IF dispatching THEN "ReentrantDispatch"
  ELSE IF ~isPlainObject(action) THEN "InvalidAction"
  ELSE IF action.type = "undefined" THEN "InvalidActionType"
  ELSE "none"

\* the three checks at the head of dispatch, in their order
dispatchError(action, dispatching) ==
  IF ~isPlainObject(action) THEN "InvalidAction"
  ELSE IF action.type = "undefined" THEN "InvalidActionType"
  ELSE IF dispatching THEN "ReentrantDispatch"
  ELSE "none"

\* frame of one dispatch call whose reducer has been entered.  reducer and
\* arg are the operands of the call of line 186; oldReducer is currentReducer
\* when the public operation was called; serial, startRegs, startCur, snap,
\* expected and invoked record what the call saw and did
DispatchFrame(via, action, reducer, serial) ==
  [kind |-> "dispatch", via |-> via, action |-> action, pc |-> "reducer",
   reducer |-> reducer, oldReducer |-> currentReducer, arg |-> currentState,
   listeners |-> 0, i |-> 0, fn |-> "", serial |-> serial, startRegs |-> LiveFns(regs),
   startCur |-> currentListeners,
   snap |-> <<>>, expected |-> <<>>, invoked |-> <<>>]

ListenerFrame(f) ==
  [kind |-> "listener", via |-> "", action |-> INIT, pc |-> "",
   reducer |-> "", oldReducer |-> "", arg |-> Undefined, listeners |-> 0,
   i |-> 0, fn |-> f, serial |-> 0, startRegs |-> <<>>,
   startCur |-> 0,
   snap |-> <<>>, expected |-> <<>>, invoked |-> <<>>]

NoFrame == ListenerFrame("")

\* outcome of a completed call: what was called, how it ended, the state and
\* the reducer before the call and, for a dispatch, the frame it ran in
Outcome(op, status, action, f) ==
  [op |-> op, status |-> status, action |-> action, before |-> currentState,
   reducer |-> currentReducer, depth |-> Len(stack), frame |-> f,
   call |-> NoCall]

NoResult ==
  [op |-> "none", status |-> "none", action |-> INIT, before |-> Undefined,
   reducer |-> "", depth |-> 0, frame |-> NoFrame, call |-> NoCall]

InReducer == stack # <<>> /\ Top.kind = "dispatch" /\ Top.pc = "reducer"
InListener == stack # <<>> /\ Top.kind = "listener"
Notifying == stack # <<>> /\ Top.kind = "dispatch" /\ Top.pc = "notify"

\* the number of calls the client makes
CallBudget ==
  CASE client = "reentrant" -> MaxCalls
    [] client = "sequential" -> MaxSeqCalls
    [] client = "composer" -> MaxComposerCalls
    [] client = "observed" -> MaxCalls

\* user code holding the store is running and may call it
UserCode ==
  /\ created = "live"
  /\ \/ stack = <<>>
     \/ client \in {"reentrant", "observed"} /\ InListener
     \/ client \in {"reentrant", "observed"} /\ InReducer /\ Top.via # "create"
  /\ calls < CallBudget

\* ---------------------------------------------------------------- Init
Start ==
  /\ currentReducer = preloaded.reducer
  /\ currentState = preloaded.state
  /\ heap = << <<>> >>
  /\ currentListeners = 1
  /\ nextListeners = 1
  /\ isDispatching = FALSE
  /\ regs = <<>>
  /\ stack = <<>>
  /\ created = "new"
  /\ result = NoResult
  /\ calls = 0
  /\ dispatches = 0

\* createStore(counter) and createStore(counter, 2)
Preloaded == [reducer : {"counter"}, state : {Undefined, <<2>>}]

Init ==
  /\ preloaded \in Preloaded
  /\ Start
  /\ client = "reentrant"
  /\ objects = <<>>
  /\ combined = NoCombination
  /\ observers = <<>>
  /\ pushed = <<>>

InitSequential ==
  /\ preloaded \in Preloaded
  /\ Start
  /\ client = "sequential"
  /\ objects = <<>>
  /\ combined = NoCombination
  /\ observers = <<>>
  /\ pushed = <<>>

\* state objects that exist before the store: { count: 1, flag: 0 } and
\* { count: 1, extra: 7 }
PreloadedObjects ==
  << [count |-> <<1>>, flag |-> <<0>>], [count |-> <<1>>, extra |-> <<7>>] >>

\* combineReducers(reducers) is about to be called; createStore(combination)
\* or createStore(combination, preloadedState) follows
InitCombine ==
  /\ preloaded \in [reducer : {"combination"},
                    state : {Undefined, <<1>>, <<2>>}]
  /\ Start
  /\ client = "composer"
  /\ objects = PreloadedObjects
  /\ combined \in {[NoCombination EXCEPT !.status = "new", !.reducers = m] :
                     m \in ReducerMaps}
  /\ observers = <<>>
  /\ pushed = <<>>

\* a store whose callers also use its observable
InitObserved ==
  /\ preloaded \in Preloaded
  /\ Start
  /\ client = "observed"
  /\ objects = <<>>
  /\ combined = NoCombination
  /\ observers = <<>>
  /\ pushed = <<>>

\* ---------------------------------------------------------------- actions
\* createStore line 281: dispatch({ type: ActionTypes.INIT })
CreateStore ==
  /\ created = "new" /\ stack = <<>>
  /\ client = "composer" => combined.status = "ok"
  /\ created' = "creating"
  /\ isDispatching' = TRUE
  /\ stack' = <<DispatchFrame("create", INIT, currentReducer, 0)>>
  /\ result' = NoResult
  /\ UNCHANGED <<currentReducer, currentState, currentListeners, nextListeners,
                 heap, regs, calls, dispatches, preloaded, client, objects, combined, observers, pushed>>

GetState ==
  /\ UserCode
  /\ result' = Outcome("getState", "ok", INIT, NoFrame)
  /\ UNCHANGED <<store, regs, stack, created, calls, dispatches, preloaded, client, objects, combined, observers, pushed>>

\* subscribe(listener), lines 103-140
Subscribe(l) ==
  /\ UserCode
  /\ IF subscribeError(l, isDispatching) # "none"
     THEN /\ result' = Outcome("subscribe", subscribeError(l, isDispatching),
                               INIT, NoFrame)
          /\ UNCHANGED <<store, regs, calls>>
     ELSE /\ Len(regs) < MaxSubs
          /\ l = "m" => regs # <<>>
          /\ calls' = calls + 1
          /\ LET r == subscribeLists(heap, currentListeners, nextListeners, l)
             IN  /\ heap' = r.heap
                 /\ nextListeners' = r.next
          /\ regs' = Append(regs, [listener |-> l, isSubscribed |-> TRUE])
          /\ result' = Outcome("subscribe", "ok", INIT, NoFrame)
          /\ UNCHANGED <<currentReducer, currentState, currentListeners,
                         isDispatching>>
  /\ UNCHANGED <<stack, created, dispatches, preloaded, client, objects, combined, observers, pushed>>

\* the unsubscribe closure of the k-th subscribe call, lines 121-139
Unsubscribe(k) ==
  /\ UserCode
  /\ calls' = IF regs[k].isSubscribed THEN calls + 1 ELSE calls
  /\ LET r == unsubscribeLists(heap, currentListeners, nextListeners, regs[k])
     IN  /\ heap' = r.heap
         /\ nextListeners' = r.next
  /\ regs' = [regs EXCEPT ![k].isSubscribed = FALSE]
  /\ result' = [Outcome("unsubscribe", "ok", INIT, NoFrame) EXCEPT
                  !.frame.fn = regs[k].listener,
                  !.frame.pc = IF regs[k].isSubscribed THEN "first" ELSE "again"]
  /\ UNCHANGED <<currentReducer, currentState, currentListeners, isDispatching,
                 stack, created, dispatches, preloaded, client, objects, combined, observers, pushed>>

NestDepth == Cardinality({j \in 1..Len(stack) : stack[j].kind = "dispatch"})

\* dispatch(action), lines 152-192: the checks, then the reducer is entered
Dispatch(action) ==
  /\ UserCode
  /\ LET err == dispatchError(action, isDispatching)
     IN  IF err # "none"
         THEN /\ result' = Outcome("dispatch", err, action, NoFrame)
              /\ UNCHANGED <<isDispatching, stack, calls, dispatches>>
         ELSE /\ NestDepth < MaxNest /\ dispatches < MaxDispatch
              /\ calls' = calls + 1
              /\ dispatches' = dispatches + 1
              /\ isDispatching' = TRUE
              /\ stack' = Append(stack, DispatchFrame("user", action, currentReducer,
                                                 dispatches + 1))
              /\ result' = NoResult
  /\ UNCHANGED <<currentReducer, currentState, currentListeners, nextListeners,
                 heap, regs, created, preloaded, client, objects, combined, observers, pushed>>

\* replaceReducer(nextReducer), lines 218-232
ReplaceReducer(nextReducer) ==
  /\ UserCode
  /\ IF nextReducer = NotAFunction
     THEN /\ result' = Outcome("replaceReducer", "InvalidReducer", INIT, NoFrame)
          /\ UNCHANGED <<currentReducer, isDispatching, stack, calls, dispatches>>
     ELSE /\ currentReducer' = nextReducer
          /\ calls' = calls + 1
          /\ LET err == dispatchError(INIT, isDispatching)
             IN  IF err # "none"
                 THEN /\ result' = Outcome("replaceReducer", err, INIT, NoFrame)
                      /\ UNCHANGED <<isDispatching, stack, dispatches>>
                 ELSE /\ NestDepth < MaxNest /\ dispatches < MaxDispatch
                      /\ dispatches' = dispatches + 1
                      /\ isDispatching' = TRUE
                      /\ stack' = Append(stack,
                                    DispatchFrame("replace", INIT, nextReducer,
                                                  dispatches + 1))
                      /\ result' = NoResult
  /\ UNCHANGED <<currentState, currentListeners, nextListeners, heap, regs,
                 created, preloaded, client, objects, combined, observers, pushed>>

\* the call of line 186 when currentReducer is a combined reducer
composedCall == combination(combined, objects, Top.arg, Top.action)

\* the reducer returns: lines 186-195, up to the first listener call
ReducerReturn ==
  /\ InReducer
  /\ Top.reducer = "combination" => composedCall.status = "ok"
  /\ currentState' = callReducer(Top.reducer, Top.arg, Top.action)
  /\ objects' = IF Top.reducer = "combination" THEN composedCall.objects
                ELSE objects
  /\ isDispatching' = releaseFlag(FALSE)
  /\ currentListeners' = nextListeners
  /\ stack' = [stack EXCEPT ![Len(stack)] =
                 [@ EXCEPT !.pc = "notify", !.listeners = nextListeners,
                           !.i = 1, !.snap = heap[nextListeners],
                           !.expected = LiveFns(regs)]]
  /\ result' = NoResult
  /\ UNCHANGED <<currentReducer, nextListeners, heap, regs, created, calls,
                 dispatches, preloaded, client, combined, observers, pushed>>

\* the reducer raises: the finally block of lines 188-192, then the error
\* leaves dispatch (and replaceReducer or createStore around it)
ReducerRaise ==
  /\ InReducer
  /\ Top.reducer = "combination" => composedCall.status = "throw"
  /\ objects' = IF Top.reducer = "combination" THEN composedCall.objects
                ELSE objects
  /\ isDispatching' = releaseFlag(TRUE)
  /\ stack' = Pop
  /\ result' = [Outcome(IF Top.via = "replace" THEN "replaceReducer" ELSE "dispatch",
                        "ReducerError", Top.action, Top)
                  EXCEPT !.before = Top.arg, !.reducer = Top.oldReducer,
                         !.depth = Len(stack) - 1,
                         !.call = IF Top.reducer = "combination"
                                  THEN [composedCall EXCEPT !.objects = <<>>]
                                  ELSE NoCall]
  /\ created' = IF Top.via = "create" THEN "failed" ELSE created
  /\ UNCHANGED <<currentReducer, currentState, currentListeners, nextListeners,
                 heap, regs, calls, dispatches, preloaded, client, combined, observers, pushed>>

\* the loop of lines 198-202: listeners[i]()
NotifyNext ==
  /\ Notifying
  /\ Top.i <= Len(heap[Top.listeners])
  /\ LET f == heap[Top.listeners][Top.i]
     IN  /\ stack' = Append([stack EXCEPT ![Len(stack)] =
                               [@ EXCEPT !.i = @ + 1, !.invoked = Append(@, f)]],
                            ListenerFrame(f))
         /\ pushed' = observeState(ObserverOf(f, observers), f, pushed,
                                   currentState)
  /\ result' = NoResult
  /\ UNCHANGED <<store, regs, created, calls, dispatches, preloaded, client,
                 objects, combined, observers>>

\* the loop is over: return action, line 205
DispatchReturn ==
  /\ Notifying
  /\ Top.i > Len(heap[Top.listeners])
  /\ stack' = Pop
  /\ result' = [Outcome(IF Top.via = "replace" THEN "replaceReducer" ELSE "dispatch",
                        "ok", Top.action, Top)
                  EXCEPT !.before = Top.arg, !.reducer = Top.oldReducer,
                         !.depth = Len(stack) - 1]
  /\ created' = IF Top.via = "create" THEN "live" ELSE created
  /\ UNCHANGED <<store, regs, calls, dispatches, preloaded, client, objects, combined, observers, pushed>>

ListenerReturn ==
  /\ InListener
  /\ stack' = Pop
  /\ result' = NoResult
  /\ UNCHANGED <<store, regs, created, calls, dispatches, preloaded, client, objects, combined, observers, pushed>>

\* a listener raises: nothing catches it in dispatch, so the error leaves
\* the dispatch call that was notifying
ListenerRaise ==
  /\ InListener
  /\ LET d == stack[Len(stack) - 1]
     IN  result' = [Outcome(IF d.via = "replace" THEN "replaceReducer" ELSE "dispatch",
                            "ListenerError", d.action, d)
                      EXCEPT !.before = d.arg, !.reducer = d.oldReducer,
                             !.depth = Len(stack) - 2]
  /\ stack' = SubSeq(stack, 1, Len(stack) - 2)
  /\ UNCHANGED <<store, regs, created, calls, dispatches, preloaded, client, objects, combined, observers, pushed>>

\* observable().subscribe(observer), lines 252-271: observeState() is called
\* once, then subscribed as a listener; unsubscribe is the closure of that
\* subscribe call
ObservableSubscribe(observer) ==
  /\ UserCode
  /\ IF observer = NotAnObject
     THEN /\ result' = Outcome("observable.subscribe", "TypeError", INIT, NoFrame)
          /\ UNCHANGED <<store, regs, calls, observers, pushed>>
     ELSE /\ Len(observers) < MaxObservers /\ Len(regs) < MaxSubs
          /\ calls' = calls + 1
          /\ LET f == ObserveStates[Len(observers) + 1]
                 r == subscribeLists(heap, currentListeners, nextListeners, f)
             IN  /\ pushed' = observeState(observer, f, pushed, currentState)
                 /\ heap' = r.heap
                 /\ nextListeners' = r.next
                 /\ regs' = Append(regs, [listener |-> f, isSubscribed |-> TRUE])
          /\ observers' = Append(observers, observer)
          /\ result' = Outcome("observable.subscribe", "ok", INIT, NoFrame)
          /\ UNCHANGED <<currentReducer, currentState, currentListeners,
                         isDispatching>>
  /\ UNCHANGED <<stack, created, dispatches, preloaded, client, objects, combined>>

\* combineReducers(reducers), lines 383-464
CombineReducers ==
  /\ client = "composer" /\ combined.status = "new"
  /\ combined' = combineReducers(combined.reducers)
  /\ result' = Outcome("combineReducers", combined'.status, INIT, NoFrame)
  /\ UNCHANGED <<store, regs, stack, created, calls, dispatches, preloaded,
                 client, objects, observers, pushed>>

\* states that top-level code holding the combined reducer can pass to it:
\* none, an object made before, the last value it returned, the store's state
CallStates ==
  {Undefined, <<1>>, <<2>>, currentState}
    \cup (IF result.op = "combination" THEN {result.call.value} ELSE {})

\* combination(state, action) called directly by top-level code
Call(state, action) ==
  /\ client = "composer" /\ combined.status = "ok"
  /\ stack = <<>>
  /\ calls < CallBudget
  /\ calls' = calls + 1
  /\ LET c == combination(combined, objects, state, action)
     IN  /\ objects' = c.objects
         /\ result' = [Outcome("combination", c.status, action, NoFrame)
                         EXCEPT !.before = state,
                                !.call = [c EXCEPT !.objects = <<>>]]
  /\ UNCHANGED <<store, regs, stack, created, dispatches, preloaded, client,
                 combined, observers, pushed>>

Next ==
  \/ CreateStore
  \/ GetState
  \/ \E l \in Listeners \cup {NotAFunction} : Subscribe(l)
  \/ \E k \in 1..Len(regs) : Unsubscribe(k)
  \/ \E a \in Actions : Dispatch(a)
  \/ \E r \in NextReducers : ReplaceReducer(r)
  \/ ReducerReturn
  \/ ReducerRaise
  \/ NotifyNext
  \/ DispatchReturn
  \/ ListenerReturn
  \/ ListenerRaise

Spec == Init /\ [][Next]_vars

\* the same store, called by top-level code only
SpecSequential == InitSequential /\ [][Next]_vars

\* a combined reducer is built, called, and used by a store
NextCombine ==
  \/ CombineReducers
  \/ \E state \in CallStates, a \in CombineActions \cup {INIT} : Call(state, a)
  \/ CreateStore
  \/ Subscribe("l")
  \/ \E a \in CombineActions : Dispatch(a)
  \/ ReducerReturn
  \/ ReducerRaise
  \/ NotifyNext
  \/ DispatchReturn
  \/ ListenerReturn

SpecCombine == InitCombine /\ [][NextCombine]_vars

\* the store and its observable, called from anywhere
NextObserved ==
  \/ CreateStore
  \/ Subscribe("l")
  \/ \E observer \in Observers : ObservableSubscribe(observer)
  \/ \E k \in 1..Len(regs) : Unsubscribe(k)
  \/ Dispatch([plain |-> TRUE, type |-> "INC"])
  \/ ReplaceReducer("stepper")
  \/ ReducerReturn
  \/ ReducerRaise
  \/ NotifyNext
  \/ DispatchReturn
  \/ ListenerReturn
  \/ ListenerRaise

SpecObserved == InitObserved /\ [][NextObserved]_vars

TypeOK ==
  /\ currentReducer \in Reducers \cup {"combination"}
  /\ isDispatching \in BOOLEAN
  /\ currentListeners \in 1..Len(heap)
  /\ nextListeners \in 1..Len(heap)
  /\ created \in {"new", "creating", "live", "failed"}
  /\ calls \in 0..CallBudget
  /\ client \in {"reentrant", "sequential", "composer", "observed"}
  /\ Len(observers) <= MaxObservers
  /\ Len(pushed) <= MaxObservers * (1 + MaxDispatch)
  /\ combined.status \in {"none", "new", "ok"}
  /\ currentState = Undefined \/ Len(currentState) = 1

\* ---------------------------------------------------------------- properties
DispatchFrames == {j \in 1..Len(stack) : stack[j].kind = "dispatch"}
NotifyFrames == {j \in DispatchFrames : stack[j].pc = "notify"}
Errors == {"InvalidAction", "InvalidActionType", "ReentrantDispatch",
           "ReducerError", "ListenerError"}
SameCounts(s, t) == \A f \in Listeners : Count(s, f) = Count(t, f)

\* C1: subscribing or unsubscribing while dispatch N is notifying leaves N's
\* pass alone: the array N iterates still holds what it held when N took it
\* and N has invoked exactly its leading entries; the change shows in the
\* next dispatch (nested or later), whose snapshot holds each listener as
\* many times as it has subscriptions not yet unsubscribed.
C1_NotifyUnaffected ==
  \A j \in NotifyFrames :
    /\ heap[stack[j].listeners] = stack[j].snap
    /\ stack[j].invoked = SubSeq(stack[j].snap, 1, stack[j].i - 1)
    /\ SameCounts(stack[j].snap, stack[j].expected)

\* a nested dispatch N+1 has invoked a listener that is absent from the
\* snapshot of the dispatch N still notifying below it
C1_Witness ==
  \E j \in NotifyFrames : \E k \in NotifyFrames :
    /\ j < k
    /\ \E n \in 1..Len(stack[k].invoked) :
         Count(stack[j].snap, stack[k].invoked[n]) = 0

\* C2: the listeners a dispatch notified are exactly the registrations that
\* were live when the dispatch call began.
C2_SnapshotAtCallStart ==
  (result.op = "dispatch" /\ result.status = "ok")
    => SameCounts(result.frame.invoked, result.frame.startRegs)

\* C3: a valid action dispatched from inside a running reducer is rejected
\* as re-entrant, no reducer is entered and no store field changes; when the
\* reducer then returns, the outer dispatch commits the reducer's result,
\* clears isDispatching and takes its snapshot.
C3_ReentrantRejected ==
  [][ /\ \A a \in Actions :
           (InReducer /\ isPlainObject(a) /\ a.type # "undefined" /\ Dispatch(a))
             => /\ result'.status = "ReentrantDispatch"
                /\ UNCHANGED <<store, regs, stack, dispatches>>
      /\ ReducerReturn
           => /\ currentState' = Reduce(Top.reducer, currentState, Top.action)
              /\ ~isDispatching'
              /\ stack'[Len(stack)].pc = "notify"
              /\ stack'[Len(stack)].snap = heap[nextListeners] ]_vars

\* a reducer has just had its dispatch call rejected as re-entrant
C3_Witness ==
  /\ InReducer
  /\ result.op = "dispatch" /\ result.status = "ReentrantDispatch"

\* C4: when the reducer raises, isDispatching is false again, currentState
\* and currentListeners are what they were before the call, no listener was
\* invoked, and a valid dispatch would be accepted.
C4_ReducerRaises ==
  result.status = "ReducerError"
    => /\ ~isDispatching
       /\ currentState = result.before
       /\ currentListeners = result.frame.startCur
       /\ result.frame.invoked = <<>>
       /\ result.frame.pc = "reducer"
       /\ \A a \in Actions :
            (isPlainObject(a) /\ a.type # "undefined")
              => dispatchError(a, isDispatching) = "none"

\* the reducer raised on INC while a listener was subscribed
C4_Witness ==
  /\ result.op = "dispatch" /\ result.status = "ReducerError"
  /\ result.action.type = "INC"
  /\ heap[nextListeners] # <<>>

\* C5: dispatch checks plainness, then the type, then re-entrancy; a
\* rejected call enters no reducer, invokes no listener and changes no
\* store field.
C5_ValidationOrder ==
  [][ \A a \in Actions :
        Dispatch(a) =>
          LET e == IF ~a.plain THEN "InvalidAction"
                   ELSE IF a.type = "undefined" THEN "InvalidActionType"
                   ELSE IF isDispatching THEN "ReentrantDispatch"
                   ELSE "none"
          IN  IF e = "none"
              THEN result' = NoResult /\ Len(stack') = Len(stack) + 1
              ELSE /\ result'.status = e
                   /\ UNCHANGED <<store, regs, stack, dispatches>> ]_vars

\* an action that is not a plain object was dispatched from inside a reducer
C5_Witness ==
  /\ InReducer
  /\ result.op = "dispatch" /\ result.status = "InvalidAction"

\* C6 as stated: after a dispatch call that raised, whatever the cause,
\* getState() returns what it returned before the call.
C6_NoPartialMutation ==
  (result.op = "dispatch" /\ result.status \in Errors)
    => currentState = result.before

\* C6 amended: after a dispatch call that raised because of the action, of
\* re-entrancy or of the reducer, getState() returns what it returned before
\* the call; after any raising dispatch that had entered the reducer the
\* flag is released, so the store accepts dispatches again; a listener that
\* raises leaves the reducer's result committed.
C6_NoMutationBeforeCommit ==
  /\ (result.op = "dispatch" /\ result.status \in Errors \ {"ListenerError"})
       => currentState = result.before
  /\ (result.op = "dispatch" /\ result.status \in {"ReducerError", "ListenerError"})
       => ~isDispatching
  /\ (result.op = "dispatch" /\ result.status = "ListenerError"
        /\ dispatches = result.frame.serial)
       => currentState = Reduce(result.frame.reducer, result.before,
                                result.action)

\* the reducer raised on an action that would have changed the state
C6_Witness ==
  /\ result.op = "dispatch" /\ result.status = "ReducerError"
  /\ Reduce(result.frame.reducer, result.before, result.action) # currentState

\* C7: the first call of an unsubscribe function removes one occurrence of
\* its listener from nextListeners and nothing else; every later call
\* changes nothing, whatever has been subscribed since.
C7_UnsubscribeOnce ==
  [][ \A k \in 1..Len(regs) :
        Unsubscribe(k) =>
          IF regs[k].isSubscribed
          THEN /\ \A f \in Listeners :
                    Count(heap'[nextListeners'], f) =
                      Count(heap[nextListeners], f)
                        - (IF f = regs[k].listener THEN 1 ELSE 0)
               /\ ~regs'[k].isSubscribed
          ELSE /\ heap'[nextListeners'] = heap[nextListeners]
               /\ UNCHANGED <<store, regs>> ]_vars

\* one listener subscribed twice, one of the two unsubscribe functions called
\* again after its first call: one occurrence is left
C7_Witness ==
  /\ result.op = "unsubscribe" /\ result.frame.pc = "again"
  /\ Len(regs) = 2
  /\ regs[1].listener = regs[2].listener
  /\ Count(heap[nextListeners], result.frame.fn) = 1

\* C8: a successful dispatch invokes the registrations of its snapshot once
\* each, in the order in which the registrations still live were subscribed.
C8_RegistrationOrder ==
  (result.op = "dispatch" /\ result.status = "ok")
    => result.frame.invoked = result.frame.expected

\* C9: right after creation the state is reducer(preloadedState, INIT),
\* the flag is clear and nothing is subscribed; each dispatch that enters
\* the reducer commits currentReducer(previous state, action), and no other
\* reducer call happens before its first listener runs.
C9_InitAndReduce ==
  /\ (created = "live" /\ calls = 0)
       => /\ currentState = Reduce(preloaded.reducer, preloaded.state, INIT)
          /\ ~isDispatching
          /\ heap[nextListeners] = <<>> /\ heap[currentListeners] = <<>>
          /\ dispatches = 0
  /\ (Notifying /\ Top.i = 1)
       => /\ currentState = Reduce(Top.reducer, Top.arg, Top.action)
          /\ Top.via # "create" => dispatches = Top.serial

\* counter example: created without preloaded state, one INC dispatched
C9_Witness ==
  /\ preloaded.state = Undefined
  /\ result.op = "dispatch" /\ result.status = "ok"
  /\ result.action.type = "INC"
  /\ result.before = <<0>> /\ currentState = <<1>>
  /\ calls = 1

\* C10 as stated: when replaceReducer(newReducer) has returned, currentReducer
\* is newReducer and the state is newReducer(undefined, INIT).
C10_StateFromUndefined ==
  (result.op = "replaceReducer" /\ result.status = "ok")
    => /\ currentReducer = result.frame.reducer
       /\ currentState = Reduce(result.frame.reducer, Undefined, INIT)

\* C10 amended: replaceReducer(newReducer) makes newReducer the current
\* reducer and, with no dispatch call by the caller, commits
\* newReducer(s, INIT), where s is the state held before the call: the old
\* state is handed to the new reducer, not undefined.  That is the state
\* when replaceReducer returns, unless a listener dispatched meanwhile.
C10_StateFromPrevious ==
  /\ [](/\ (Notifying /\ Top.i = 1 /\ Top.via = "replace")
             => currentState = Reduce(Top.reducer, Top.arg, INIT)
        /\ (result.op = "replaceReducer" /\ result.status = "ok"
              /\ dispatches = result.frame.serial)
             => currentState = Reduce(result.frame.reducer, result.before, INIT))
  /\ [][ \A r \in Reducers :
           ReplaceReducer(r) =>
             /\ currentReducer' = r
             /\ isDispatching \/ (InReducer' /\ Top'.reducer = r
                                    /\ Top'.arg = currentState
                                    /\ Top'.action = INIT) ]_vars

\* replaceReducer returned with a state that the new reducer would not have
\* derived from undefined
C10_Witness ==
  /\ result.op = "replaceReducer" /\ result.status = "ok"
  /\ currentReducer = result.frame.reducer
  /\ currentState # Reduce(result.frame.reducer, Undefined, INIT)

\* C11: a replaceReducer call that fails (argument not a function, call made
\* while a reducer is running, or new reducer raising on INIT) leaves both
\* currentState and currentReducer as they were before the call
C11_ReplaceFailureNoMutation ==
  (result.op = "replaceReducer"
     /\ result.status \in {"InvalidReducer", "ReentrantDispatch", "ReducerError"})
    => /\ currentState = result.before
       /\ currentReducer = result.reducer


\* C17 (as claimed): a dispatch call made by a listener while a dispatch is
\* notifying its snapshot is rejected as one made by a reducer is, and starts
\* no nested dispatch
C17_ListenerDispatchRejected ==
  [][ \A a \in Actions :
        (InListener /\ isPlainObject(a) /\ a.type # "undefined" /\ Dispatch(a))
          => /\ result'.status = "ReentrantDispatch"
             /\ UNCHANGED <<store, regs, stack, dispatches>> ]_vars

\* C17 (amended): the guard rejects a dispatch call made by a running
\* reducer only; one made by a listener while a dispatch is notifying is
\* accepted and runs, reducer and listeners, before the notifying dispatch
\* goes on
C17_ListenerDispatchNested ==
  /\ [](\A j \in DispatchFrames :
          j < Len(stack) => /\ stack[j].pc = "notify"
                            /\ stack[j + 1].kind = "listener")
  /\ [][ \A a \in Actions :
           (isPlainObject(a) /\ a.type # "undefined" /\ Dispatch(a))
             => IF InReducer
                THEN /\ result'.status = "ReentrantDispatch"
                     /\ UNCHANGED <<store, regs, stack, dispatches>>
                ELSE /\ ~isDispatching /\ isDispatching'
                     /\ Len(stack') = Len(stack) + 1
                     /\ SubSeq(stack', 1, Len(stack)) = stack
                     /\ stack'[Len(stack')].kind = "dispatch"
                     /\ stack'[Len(stack')].pc = "reducer"
                     /\ stack'[Len(stack')].action = a
                     /\ result' = NoResult ]_vars

\* the reducer of a dispatch made by a listener is running while the
\* dispatch that called the listener is still notifying
C17_Witness ==
  /\ Len(stack) = 3
  /\ stack[1].kind = "dispatch" /\ stack[1].pc = "notify"
  /\ stack[1].i <= Len(stack[1].snap)
  /\ stack[2].kind = "listener"
  /\ stack[3].kind = "dispatch" /\ stack[3].pc = "reducer"
  /\ stack[3].via = "user"

ReducerFrames == {j \in DispatchFrames : stack[j].pc = "reducer"}

\* C18 (as claimed): isDispatching is true exactly while one reducer
\* invocation is in progress, and at most one is; it is false at the return
\* of every public operation (to a caller that is no running reducer),
\* before and after the INIT dispatch of createStore, and during the whole
\* notification phase of a dispatch
C18_ModeInvariantAsClaimed ==
  /\ isDispatching <=> ReducerFrames # {}
  /\ Cardinality(ReducerFrames) <= 1
  /\ (result.op # "none" /\ ~InReducer) => ~isDispatching
  /\ (stack = <<>> /\ created \in {"new", "live", "failed"}) => ~isDispatching
  /\ NotifyFrames # {} => ~isDispatching

\* C18 (amended): isDispatching is true exactly while one reducer invocation
\* is in progress, which then is the innermost call, and at most one is; it
\* is false whenever no reducer is running: at the return of every dispatch
\* or replaceReducer call that entered its reducer, at the return of every
\* operation not called by a running reducer, before and after the INIT
\* dispatch of createStore, and during notification except while the reducer
\* of a dispatch made by a listener is running
C18_ModeInvariant ==
  /\ isDispatching <=> ReducerFrames # {}
  /\ ReducerFrames \subseteq {Len(stack)}
  /\ (result.op \in {"dispatch", "replaceReducer"}
        /\ result.status \in {"ok", "ReducerError", "ListenerError"})
       => ~isDispatching
  /\ (result.op # "none" /\ ~InReducer) => ~isDispatching
  /\ (stack = <<>> /\ created \in {"new", "live", "failed"}) => ~isDispatching
  /\ (Notifying \/ InListener) => ~isDispatching

\* the reducer of a dispatch made by a listener has raised: the flag is
\* false again while the outer dispatch is still notifying
C18_Witness ==
  /\ result.op = "dispatch" /\ result.status = "ReducerError"
  /\ InListener /\ Len(stack) = 2
  /\ ~isDispatching

\* C19: getState, subscribe and unsubscribe succeed whether or not a reducer
\* is running, start no reducer and no listener, and leave currentState,
\* currentReducer and isDispatching as they are; getState leaves the listener
\* lists as they are too; currentState changes only where the reducer of a
\* dispatch (a user's, replaceReducer's or createStore's) returns
C19_ReadersLeaveStore ==
  [][ /\ GetState
           => /\ result'.status = "ok"
              /\ UNCHANGED <<store, regs, stack>>
      /\ \A l \in Listeners :
           Subscribe(l)
             => /\ result'.status = "ok"
                /\ UNCHANGED <<currentState, currentReducer, isDispatching,
                               currentListeners, stack>>
      /\ \A k \in 1..Len(regs) :
           Unsubscribe(k)
             => /\ result'.status = "ok"
                /\ UNCHANGED <<currentState, currentReducer, isDispatching,
                               currentListeners, stack>>
      /\ currentState' # currentState
           => /\ InReducer /\ Notifying'
              /\ Top.via \in {"user", "replace", "create"} ]_vars

\* subscribe has just returned normally to a running reducer
C19_Witness ==
  /\ InReducer /\ isDispatching
  /\ result.op = "subscribe" /\ result.status = "ok"
  /\ currentState = Top.arg

\* arrays that a notification pass in progress iterates over, or that
\* currentListeners refers to
Protected == {currentListeners} \cup {stack[j].listeners : j \in NotifyFrames}

\* C20: (a) no step changes an array that is the snapshot of a notification
\* pass in progress or that currentListeners refers to: subscribe and
\* unsubscribe write to a new array whenever nextListeners is
\* currentListeners; (b) every listener function occurs in nextListeners as
\* many times as it has subscriptions not yet unsubscribed, so indexOf finds
\* the listener of every such subscription
C20_CopyOnWrite ==
  /\ [](/\ \A f \in Listeners :
             Count(heap[nextListeners], f) = Count(LiveFns(regs), f)
        /\ Len(heap[nextListeners]) = Len(LiveFns(regs))
        /\ \A k \in 1..Len(regs) :
             regs[k].isSubscribed
               => indexOf(heap[nextListeners], regs[k].listener) # 0)
  /\ [][ /\ \A id \in Protected : heap'[id] = heap[id]
         /\ SubSeq(heap', 1, Len(heap)) # heap
              => /\ nextListeners # currentListeners
                 /\ nextListeners' = nextListeners
         /\ (heap' # heap /\ nextListeners = currentListeners)
              => /\ nextListeners' = Len(heap) + 1
                 /\ heap' = Append(heap, heap'[nextListeners']) ]_vars

\* a listener has unsubscribed during a notification pass: nextListeners is
\* a new array and the pass goes on over its own
C20_Witness ==
  /\ InListener
  /\ result.op = "unsubscribe" /\ result.frame.pc = "first"
  /\ nextListeners # currentListeners
  /\ stack[Len(stack) - 1].listeners = currentListeners
  /\ Len(heap[nextListeners]) < Len(heap[currentListeners])
  /\ heap[currentListeners] = stack[Len(stack) - 1].snap

\* ------------------------------------------------- properties of the composer
\* the slice reducers that survive the filter of lines 389-406, in key order
SliceKeys ==
  [i \in 1..Len(SelectSeq(combined.reducers, isFunction)) |->
     SelectSeq(combined.reducers, isFunction)[i]]

\* state[key] of the state st: of the object, or of the {} that stands in
\* for an absent state
Previous(st, key) ==
  IF st = Undefined THEN Undefined ELSE Get(objects[st[1]], key)

\* what the slice reducer of the i-th key returns for the state object st
SliceValue(st, a, i) ==
  SliceReduce(SliceKeys[i].reducer, objects, Previous(st, SliceKeys[i].key), a).value

\* every slice reducer returns the value it was given
NoSliceChanges(st, a) ==
  \A i \in 1..Len(SliceKeys) : SliceValue(st, a, i) = Previous(st, SliceKeys[i].key)

\* the first key whose slice reducer returns undefined, 0 if there is none
FirstUndefined(st, a) ==
  LET bad == {i \in 1..Len(SliceKeys) : SliceValue(st, a, i) = Undefined}
  IN  IF bad = {} THEN 0 ELSE CHOOSE i \in bad : \A j \in bad : i <= j

\* a surviving slice reducer returns undefined for (undefined, INIT) or for
\* (undefined, probe)
SanityViolated ==
  \E i \in 1..Len(SliceKeys) :
    \E a \in {INIT, PROBE} :
      SliceReduce(SliceKeys[i].reducer, <<>>, Undefined, a).value = Undefined

\* a call of the combined reducer has just ended: called directly, or by a
\* dispatch of the store that ended in the reducer
CombinedCallEnded ==
  /\ client = "composer"
  /\ \/ result.op = "combination"
     \/ result.op = "dispatch" /\ result.status = "ReducerError"

\* C12: whenever every slice reducer returns a value identical to state[key],
\* the combined reducer returns the very reference that is its state
\* parameter (an absent argument is the fresh {} of line 425), so an object
\* passed in comes back itself, also when the result is passed in again
C12_ReferentialStability ==
  (result.op = "combination" /\ result.status = "ok"
     /\ NoSliceChanges(result.before, result.action))
    => /\ result.call.value = result.call.state
       /\ result.before # Undefined => result.call.value = result.before

C12_Witness ==
  /\ result.op = "combination" /\ result.status = "ok"
  /\ Len(SliceKeys) = 2
  /\ calls = 2
  /\ result.before \notin {Undefined, <<1>>, <<2>>}
  /\ NoSliceChanges(result.before, result.action)
  /\ result.call.value = result.before

\* the value v is what the i-th slice reducer returns for (prev, a): for the
\* items reducer a new object equal to the previous one, or the previous one
SliceResult(i, prev, a, v, base) ==
  IF SliceKeys[i].reducer = "items"
  THEN IF prev # Undefined /\ a.type # "TOUCH" THEN v = prev
       ELSE /\ v[1] > base
            /\ objects[v[1]] = IF prev = Undefined THEN [n |-> <<0>>]
                               ELSE objects[prev[1]]
  ELSE v = SliceReduce(SliceKeys[i].reducer, <<>>, prev, a).value

\* C13: when some slice result differs from its previous value, the combined
\* reducer returns a new mapping whose keys are exactly the slice keys, each
\* value being sliceReducer(state[key], action) of the input state, the slice
\* reducers having been invoked once each in key order; a slice whose
\* reducer returned its previous value keeps it
C13_NewMappingOfSliceResults ==
  (result.op = "combination" /\ result.status = "ok"
     /\ ~NoSliceChanges(result.before, result.action))
    => LET st == result.before
           v  == result.call.value
       IN  /\ v # st /\ v[1] > result.call.base
           /\ DOMAIN objects[v[1]] = {SliceKeys[i].key : i \in 1..Len(SliceKeys)}
           /\ result.call.invoked = [i \in 1..Len(SliceKeys) |-> SliceKeys[i].key]
           /\ \A i \in 1..Len(SliceKeys) :
                LET key == SliceKeys[i].key
                IN  /\ SliceResult(i, Previous(st, key), result.action,
                                   objects[v[1]][key], result.call.base)
                    /\ SliceValue(st, result.action, i) = Previous(st, key)
                         => objects[v[1]][key] = Previous(st, key)

C13_Witness ==
  /\ result.op = "combination" /\ result.status = "ok"
  /\ result.action.type = "INC"
  /\ result.before = <<2>>
  /\ objects[result.call.value[1]] = [count |-> <<2>>, items |-> <<4>>]

\* the error of line 454 for the key and the action, naming the action type
UndefinedSliceState(key, a) ==
  [kind |-> "UndefinedSliceState", key |-> key, detail |-> "\"" \o a.type \o "\""]

\* a call of a sane combined reducer has ended for which the slice reducer of
\* the i-th key returns undefined
UndefinedSlice(i) ==
  /\ client = "composer" /\ combined.sanityError = NoError
  /\ result.op \in {"combination", "dispatch"}
  /\ i # 0
  /\ i = FirstUndefined(result.before, result.action)

\* what C14 says of such a call, error being the error it names
FailsWith(i, error) ==
  /\ result.call.status = "throw"
  /\ result.call.error = error
  /\ result.call.invoked = [j \in 1..i |-> SliceKeys[j].key]
  /\ result.op = "dispatch"
       => /\ result.status = "ReducerError"
          /\ currentState = result.before
          /\ ~isDispatching
          /\ result.frame.invoked = <<>>

C15_SanityErrorDeferred ==
  /\ result.op = "combineReducers" => result.status = "ok"
  /\ (combined.status = "ok" /\ SanityViolated)
       => /\ combined.sanityError.kind = "ReducerSanity"
          /\ created # "live"
          /\ CombinedCallEnded
               => /\ result.call.status = "throw"
                  /\ result.call.error = combined.sanityError
                  /\ result.call.invoked = <<>>
  /\ (result.op = "dispatch" /\ result.call.error.kind = "ReducerSanity")
       => result.frame.via = "create" /\ created = "failed"

C15_Witness ==
  /\ SanityViolated
  /\ created = "failed"
  /\ result.op = "combination" /\ result.status = "throw"
  /\ result.call.error = [kind |-> "ReducerSanity", key |-> "lazy",
                          detail |-> "random type"]


\* ----------------------------------------------- properties of the observable
\* C16: observable().subscribe(observer) calls observer.next with the current
\* state once, at once; afterwards observer.next is called with getState()
\* once in every dispatch (replaceReducer's included) that ends normally and
\* whose snapshot holds the subscription, and in no other step: a dispatch
\* whose snapshot was taken after unsubscribe pushes nothing
C16_ObservablePushes ==
  /\ []((result.op \in {"dispatch", "replaceReducer"} /\ result.status = "ok")
          => \A n \in 1..Len(observers) :
               Count(result.frame.invoked, ObserveStates[n])
                 = IF Count(result.frame.expected, ObserveStates[n]) > 0
                   THEN 1 ELSE 0)
  /\ [][LET f == IF Len(observers') > Len(observers)
                 THEN ObserveStates[Len(observers')]
                 ELSE IF Notifying /\ Len(stack') > Len(stack)
                      THEN stack'[Len(stack')].fn
                      ELSE ""
        IN  IF ObserverOf(f, observers') = ""
            THEN pushed' = pushed
            ELSE /\ Len(observers') = Len(observers)
                      => Count(Top.expected, f) > 0
                 /\ pushed' = IF ObserverOf(f, observers') = "withNext"
                              THEN Append(pushed, [to |-> f, state |-> currentState])
                              ELSE pushed]_vars

C16_Witness ==
  /\ result.op = "dispatch" /\ result.status = "ok"
  /\ result.frame.serial = 2
  /\ observers = <<"withNext">>
  /\ regs = <<[listener |-> "observeState1", isSubscribed |-> FALSE]>>
  /\ Len(pushed) = 2
  /\ pushed[2].state = result.before

====
